---- MODULE Spec2Model ----
(***************************************************************************)
(* A model of ripunzip's core: the CloneableSeekableReader (a shared       *)
(* source behind a mutex with one logical cursor per clone), the           *)
(* DirectoryCreator, the per-entry extraction orchestrator with its        *)
(* progress reports, UnzipEngine::for_uri and the HTTP reader engine.      *)
(***************************************************************************)
EXTENDS Integers, Sequences, FiniteSets, TLC

(***************************************************************************)
(* Bounds of the model.                                                    *)
(***************************************************************************)
\* length of the underlying byte source
SrcLen == 2
\* number of CloneableSeekableReader holders (the original and its clones)
MaxHolders == 2
\* largest buffer handed to read()
MaxBuf == 2
\* cap on the logical positions and on Inner.pos explored by the reader model
MaxPos == 3

\* u64, scaled: positions are taken modulo 2^U64Bits
U64Bits == 5

Modulus == 2 ^ U64Bits
I64Min == -(2 ^ (U64Bits - 1))
I64Max == 2 ^ (U64Bits - 1) - 1

None == -1
Absent == -1

Holders == 1..MaxHolders

\* The bytes of the source: byte i (0-based) has value i, as in the tests'
\* vec![0, 1, 2, ...].
Data == [i \in 1..SrcLen |-> i - 1]

Min(a, b) == IF a < b THEN a ELSE b

VARIABLES
    \* ---- CloneableSeekableReader ----
    r_pos,      \* the true position of the underlying source Inner.r
    inner_pos,  \* Inner.pos, "the position of r"
    inner_len,  \* Inner.len, lazily loaded (None until first needed)
    pos,        \* CloneableSeekableReader.pos of every holder (Absent: no such holder)
    inner_ref,  \* which Arc<Mutex<Inner>> a holder refers to (0: no such holder)
    last,       \* the last reader operation and what it returned
    faulty,     \* whether the source of this run may raise I/O errors
    \* ---- filesystem and DirectoryCreator ----
    fs,         \* the output tree: path -> [kind, data]
    dc_mutex,   \* DirectoryCreator.0: the id of the holder of the mutex, 0 if free
    dcall,      \* per thread: its create_dir_all call [pc, path, slash, ok, slow]
    \* ---- extraction orchestrator ----
    single_threaded, \* UnzipOptions.single_threaded
    archive,    \* the entries of the archive, by index
    filter,     \* FilenameFilter::should_unzip, on the names of the archive
    next_idx,   \* the next index the range iterator (0..len) hands out
    pc,         \* per entry task: where it is
    off,        \* per entry task: bytes of the entry copied so far
    taskRet,    \* per entry task: what extract_file_if_on_list returned
    errors,     \* the Vec<anyhow::Error> collected
    retval,     \* what unzip_selective returned
    filterCalls,\* per entry: calls of should_unzip
    attempts,   \* per entry: calls of extract_file_if_on_list
    wrote,      \* per entry task: did it create or write anything in the tree
    skips,      \* the skip hints given, in order: [i, size]
    fs0,        \* the output tree before the run
    total_expected, \* the number given to total_bytes_expected
    reported,   \* per entry: the sum of the numbers given to bytes_extracted
    events,     \* per entry: calls of extraction_starting and extraction_finished
    \* ---- seek(), on its own ----
    sk_pos,     \* CloneableSeekableReader.pos of the seeking holder
    sk_len,     \* the length of the source, as Inner::len reports it
    sk_checked, \* whether the build checks arithmetic overflow (debug profile)
    sk_last,    \* the last seek: [from, before, ret, val]
    \* ---- UnzipEngine::for_uri ----
    uri_srv,    \* what the server of the URI does: [len, content_length, ranges, valid]
    uri_pc,     \* where for_uri is
    uri_tmp,    \* the length of the temporary file (None: not created)
    uri_log,    \* the fallible steps taken so far: [step, ok]
    uri_ret,    \* what for_uri returned
    \* ---- read(), step by step under the Mutex<Inner> ----
    lk_mutex,   \* the holder that has locked the Mutex<Inner>, 0 if free
    lk_pc,      \* per holder: where its read() is
    lk_res,     \* per holder: what r.read returned to its read(): [ok, k]
    lk_lastop,  \* the last seek or read issued on the source: [h, op, ok, seq]
    \* ---- SeekableHttpReaderEngine ----
    remote_len, \* the length L of the remote resource
    readahead_limit,\* Option<usize>: the most bytes the cache may hold (None: no limit)
    pattern,    \* AccessPattern: RandomAccess or SequentialIsh
    window_start,\* the absolute offset of the first byte in the cache
    bytes_buffered,\* the number of bytes in the cache
    fetcher,    \* whether an HttpRangeFetcher is active
    fetcher_next,\* the offset of the next byte the fetcher delivers
    stats,      \* the counters [rewinds, fetches, cache_shrinks]
    reads,      \* the reads issued so far: [any, last_end, ascending, long_skip, skipped]
    \* ---- ProgressUpdater, for one entry ----
    pu_c,       \* compressed_size of the entry
    pu_u,       \* uncompressed_size of the entry
    pu_acc,     \* uncompressed bytes accumulated since the last tick
    pu_written, \* bytes std::io::copy has written so far
    pu_deltas,  \* the numbers given to bytes_extracted, in order
    pu_pc,      \* copying, done (finish() called) or failed
    \* ---- UnzipEngine over its backing (UnzipFileEngine or UnzipUriEngine) ----
    backing,    \* which UnzipEngineImpl for_uri has boxed: file or http
    ue_pc,      \* how far the engine is: constructed, opened, extracting, returned
    ue_pattern, \* the AccessPattern of the SeekableHttpReaderEngine (None: no engine)
    ue_shrinks, \* stats.cache_shrinks of the SeekableHttpReaderEngine
    ue_hints,   \* the arguments of the calls of read_skip_expected, in order
    ue_warned   \* the number of calls of callback_on_rewind

readerVars == <<r_pos, inner_pos, inner_len, pos, inner_ref, last, faulty>>
fsVars == <<fs, dc_mutex, dcall>>
unzipVars == <<single_threaded, archive, filter, next_idx, pc, off, taskRet,
               errors, retval, filterCalls, attempts, wrote, skips, fs0,
               total_expected, reported, events>>

seekVars == <<sk_pos, sk_len, sk_checked, sk_last>>
uriVars == <<uri_srv, uri_pc, uri_tmp, uri_log, uri_ret>>
lockVars == <<lk_mutex, lk_pc, lk_res, lk_lastop>>
httpVars == <<remote_len, readahead_limit, pattern, window_start, bytes_buffered, fetcher, fetcher_next, stats, reads>>
progVars == <<pu_c, pu_u, pu_acc, pu_written, pu_deltas, pu_pc>>
ueVars == <<backing, ue_pc, ue_pattern, ue_shrinks, ue_hints, ue_warned>>
\* the variables of the specifications of single components
partVars == <<seekVars, uriVars, lockVars, httpVars, progVars, ueVars>>

vars == <<r_pos, inner_pos, inner_len, pos, inner_ref, last, faulty,
          fs, dc_mutex, dcall,
          single_threaded, archive, filter, next_idx, pc, off, taskRet,
          errors, retval, filterCalls, attempts, wrote, skips, fs0,
          total_expected, reported, events,
          sk_pos, sk_len, sk_checked, sk_last,
          uri_srv, uri_pc, uri_tmp, uri_log, uri_ret,
          lk_mutex, lk_pc, lk_res, lk_lastop,
          remote_len, readahead_limit, pattern, window_start, bytes_buffered, fetcher, fetcher_next, stats, reads,
          pu_c, pu_u, pu_acc, pu_written, pu_deltas, pu_pc,
          backing, ue_pc, ue_pattern, ue_shrinks, ue_hints, ue_warned>>

\* The parts of the state a specification does not use stay at these values.
FsIdle == fs = 0 /\ dc_mutex = 0 /\ dcall = 0
UnzipIdle ==
    /\ single_threaded = FALSE /\ archive = 0 /\ filter = 0 /\ next_idx = 0
    /\ pc = 0 /\ off = 0 /\ taskRet = 0 /\ errors = 0 /\ retval = 0
    /\ filterCalls = 0 /\ attempts = 0 /\ wrote = 0 /\ skips = 0 /\ fs0 = 0
    /\ total_expected = 0 /\ reported = 0 /\ events = 0
ReaderIdle ==
    /\ r_pos = 0 /\ inner_pos = 0 /\ inner_len = 0 /\ pos = 0 /\ inner_ref = 0
    /\ last = 0 /\ faulty = FALSE
SeekIdle == sk_pos = 0 /\ sk_len = 0 /\ sk_checked = FALSE /\ sk_last = 0
UriIdle == uri_srv = 0 /\ uri_pc = 0 /\ uri_tmp = 0 /\ uri_log = 0 /\ uri_ret = 0
LockIdle == lk_mutex = 0 /\ lk_pc = 0 /\ lk_res = 0 /\ lk_lastop = 0
HttpIdle == remote_len = 0 /\ readahead_limit = 0 /\ pattern = 0 /\ window_start = 0 /\ bytes_buffered = 0 /\ fetcher = 0 /\ fetcher_next = 0 /\ stats = 0 /\ reads = 0
ProgIdle == pu_c = 0 /\ pu_u = 0 /\ pu_acc = 0 /\ pu_written = 0 /\ pu_deltas = 0 /\ pu_pc = 0
UeIdle == backing = 0 /\ ue_pc = 0 /\ ue_pattern = 0 /\ ue_shrinks = 0 /\ ue_hints = 0 /\ ue_warned = 0
PartsIdle == SeekIdle /\ UriIdle /\ LockIdle /\ HttpIdle /\ ProgIdle /\ UeIdle

\* For the specification of one component: all the other variables.
coreVars == <<readerVars, fsVars, unzipVars>>
CoreIdle == ReaderIdle /\ FsIdle /\ UnzipIdle
seekOthers == <<coreVars, uriVars, lockVars, httpVars, progVars, ueVars>>
SeekOthersIdle == CoreIdle /\ UriIdle /\ LockIdle /\ HttpIdle /\ ProgIdle /\ UeIdle
uriOthers == <<coreVars, seekVars, lockVars, httpVars, progVars, ueVars>>
UriOthersIdle == CoreIdle /\ SeekIdle /\ LockIdle /\ HttpIdle /\ ProgIdle /\ UeIdle
lockOthers == <<fsVars, unzipVars, seekVars, uriVars, httpVars, progVars, ueVars>>
LockOthersIdle == FsIdle /\ UnzipIdle /\ SeekIdle /\ UriIdle /\ HttpIdle /\ ProgIdle /\ UeIdle
httpOthers == <<coreVars, seekVars, uriVars, lockVars, progVars, ueVars>>
HttpOthersIdle == CoreIdle /\ SeekIdle /\ UriIdle /\ LockIdle /\ ProgIdle /\ UeIdle
progOthers == <<coreVars, seekVars, uriVars, lockVars, httpVars, ueVars>>
ProgOthersIdle == CoreIdle /\ SeekIdle /\ UriIdle /\ LockIdle /\ HttpIdle /\ UeIdle
ueOthers == <<readerVars, seekVars, uriVars, lockVars, httpVars, progVars>>
UeOthersIdle == ReaderIdle /\ SeekIdle /\ UriIdle /\ LockIdle /\ HttpIdle /\ ProgIdle

(***************************************************************************)
(* The underlying source R: Read + Seek + HasLength (a File or a Cursor).  *)
(***************************************************************************)

\* The bytes the source holds in [p, p + k).
BytesAt(p, k) == [j \in 1..k |-> Data[p + j]]

\* How many bytes are left from position p.
Avail(p) == IF p >= SrcLen THEN 0 ELSE SrcLen - p

\* r.read(buf) at source position p with a buffer of n bytes: the lengths a
\* successful read may return (a short read is allowed; 0 only at the end of
\* the source or for an empty buffer).
ReadLens(p, n) ==
    IF Min(n, Avail(p)) = 0 THEN {0} ELSE 1..Min(n, Avail(p))

(***************************************************************************)
(* Inner                                                                   *)
(***************************************************************************)

\* Inner::len: the cached length, or the source's length, which is then cached.
InnerLen(cached) == IF cached # None THEN cached ELSE SrcLen

\* Inner::read_at(offset, buf) on inner state (rp, ip): the set of outcomes
\* [ok, bytes, rp, ip]. The read returns k bytes and Inner.pos += k; a source
\* that may fail (canFail) also has r.seek fail (`?` returns early, nothing
\* changed) or r.read fail after the (possible) seek.
InnerPosAfterRead(ip, offset, k) == ip + k

ReadAtOutcomes(rp, ip, offset, n, canFail) ==
    LET seeks == offset # ip
        rp1 == IF seeks THEN offset ELSE rp
    IN  (IF canFail /\ seeks
         THEN {[ok |-> FALSE, bytes |-> <<>>, rp |-> rp, ip |-> ip]}
         ELSE {})
        \cup (IF canFail
              THEN {[ok |-> FALSE, bytes |-> <<>>, rp |-> rp1, ip |-> ip]}
              ELSE {})
        \cup {[ok |-> TRUE, bytes |-> BytesAt(rp1, k), rp |-> rp1 + k,
               ip |-> InnerPosAfterRead(ip, offset, k)] : k \in ReadLens(rp1, n)}

(***************************************************************************)
(* Seek for CloneableSeekableReader                                        *)
(***************************************************************************)

AsU64(x) == x % Modulus

SeekStart(n) == [kind |-> "Start", off |-> n]
SeekEnd(k) == [kind |-> "End", off |-> k]
SeekCurrent(k) == [kind |-> "Current", off |-> k]

\* -x on an i64: overflows for i64::MIN (wraps to itself in a release build).
NegI64(x) == IF x = I64Min THEN I64Min ELSE -x

\* The match of seek(): [ok, pos, overflow]. overflow marks an arithmetic
\* overflow on the way (a panic in a debug build, the wrapped value in a
\* release build).
SeekResult(p, len, from) ==
    CASE from.kind = "Start" ->
            [ok |-> TRUE, pos |-> from.off, overflow |-> FALSE]
      [] from.kind = "End" ->
            LET back == AsU64(NegI64(from.off))
            IN  IF back > len
                THEN [ok |-> FALSE, pos |-> p, overflow |-> from.off = I64Min]
                ELSE [ok |-> TRUE, pos |-> len - back,
                      overflow |-> from.off = I64Min]
      [] from.kind = "Current" ->
            IF from.off > 0
            THEN [ok |-> TRUE, pos |-> AsU64(p + AsU64(from.off)),
                  overflow |-> p + from.off >= Modulus]
            ELSE [ok |-> TRUE, pos |-> AsU64(p - AsU64(NegI64(from.off))),
                  overflow |-> from.off = I64Min \/ p - AsU64(NegI64(from.off)) < 0]

\* The seeks the reader model issues.
SeekInputs ==
    {SeekStart(n) : n \in 0..MaxPos}
    \cup {SeekEnd(k) : k \in -(SrcLen + 1)..1}
    \cup {SeekCurrent(k) : k \in -1..1}

(***************************************************************************)
(* seek() on its own: one holder, every SeekFrom value of the (scaled)     *)
(* u64 / i64 ranges, a source of any length up to SrcLen.                  *)
(***************************************************************************)

\* every SeekFrom value
AllSeeks ==
    {SeekStart(n) : n \in 0..(Modulus - 1)}
    \cup {SeekEnd(k) : k \in I64Min..I64Max}
    \cup {SeekCurrent(k) : k \in I64Min..I64Max}

\* What the call of seek() does in a given build: an arithmetic overflow
\* panics where overflow is checked and wraps where it is not; otherwise
\* Ok(new_pos) with self.pos = new_pos, or the InvalidInput error with
\* self.pos untouched.
SeekOutcome(p, len, from, checked) ==
    LET res == SeekResult(p, len, from)
    IN  IF res.overflow /\ checked
        THEN [ret |-> "panic", val |-> None, pos |-> p]
        ELSE IF res.ok
             THEN [ret |-> "Ok", val |-> res.pos, pos |-> res.pos]
             ELSE [ret |-> "InvalidInput", val |-> None, pos |-> p]

SeekOnlyInit ==
    /\ sk_pos = 0
    /\ sk_len \in 0..SrcLen
    /\ sk_checked \in BOOLEAN
    /\ sk_last = [from |-> SeekStart(0), before |-> 0, ret |-> "Ok", val |-> 0]

SeekCall(from) ==
    LET o == SeekOutcome(sk_pos, sk_len, from, sk_checked)
    IN  /\ sk_pos' = o.pos
        /\ sk_last' = [from |-> from, before |-> sk_pos, ret |-> o.ret, val |-> o.val]
        /\ UNCHANGED <<sk_len, sk_checked>>

SpecSeekInit == SeekOnlyInit /\ SeekOthersIdle
SpecSeekNext ==
    \E from \in AllSeeks :
        SeekCall(from) /\ UNCHANGED seekOthers
SpecSeek == SpecSeekInit /\ [][SpecSeekNext]_vars

\* C11: for a source of length L and every offset k with L + k >= 0, k > 0
\* (past the end) included, seek(SeekFrom::End(k)) succeeds, and it sets and
\* returns the holder's position L + k.
C11_SeekEndIsLenPlusK ==
    (sk_last.from.kind = "End" /\ sk_len + sk_last.from.off >= 0)
        => /\ sk_last.ret = "Ok"
           /\ sk_last.val = sk_len + sk_last.from.off
           /\ sk_pos = sk_len + sk_last.from.off

\* C12: seek(SeekFrom::End(-k)) with k > L fails with the InvalidInput error
\* and leaves the holder's logical position exactly as it was before the
\* call.
C12_SeekEndTooFarBackFails ==
    (sk_last.from.kind = "End" /\ -sk_last.from.off > sk_len)
        => (sk_last.ret = "InvalidInput" /\ sk_pos = sk_last.before)

\* The same for every offset but i64::MIN, whose negation overflows.
SeekEndTooFarBackFailsAboveMin ==
    (sk_last.from.kind = "End" /\ -sk_last.from.off > sk_len
                              /\ sk_last.from.off # I64Min)
        => (sk_last.ret = "InvalidInput" /\ sk_pos = sk_last.before)

\* seek(End(k)) for k <= 0 and L + k >= 0 is Ok(L + k).
SeekEndBackwardIsLenPlusK ==
    (sk_last.from.kind = "End" /\ sk_len + sk_last.from.off >= 0
                              /\ sk_last.from.off <= 0)
        => /\ sk_last.ret = "Ok"
           /\ sk_last.val = sk_len + sk_last.from.off
           /\ sk_pos = sk_len + sk_last.from.off

\* C27: for a holder at position p and every signed offset k,
\* seek(SeekFrom::Current(k)) either returns an error or sets (and returns)
\* the position p + k, a value within [0, 2^64); it never yields a position
\* produced by unsigned wraparound or by the overflow of a negation.
C27_SeekCurrentNeverWraps ==
    sk_last.from.kind = "Current"
        => \/ sk_last.ret = "InvalidInput" /\ sk_pos = sk_last.before
           \/ /\ sk_last.ret = "Ok"
              /\ sk_last.val = sk_last.before + sk_last.from.off
              /\ sk_pos = sk_last.val
              /\ sk_pos \in 0..(Modulus - 1)

\* seek(Current(k)) with p + k within [0, 2^64) and k above i64::MIN is
\* Ok(p + k).
SeekCurrentInRangeIsExact ==
    (sk_last.from.kind = "Current" /\ sk_last.from.off # I64Min
        /\ sk_last.before + sk_last.from.off \in 0..(Modulus - 1))
        => /\ sk_last.ret = "Ok"
           /\ sk_last.val = sk_last.before + sk_last.from.off
           /\ sk_pos = sk_last.val

\* seek(Current(k)) never returns an error: out of range it panics (where
\* overflow is checked) or returns Ok of the wrapped value (where it is not).
SeekCurrentOutOfRange ==
    (sk_last.from.kind = "Current"
        /\ sk_last.before + sk_last.from.off \notin 0..(Modulus - 1))
        => IF sk_checked
           THEN sk_last.ret = "panic" /\ sk_pos = sk_last.before
           ELSE sk_last.ret = "Ok"
                /\ sk_pos = (sk_last.before + sk_last.from.off) % Modulus

(***************************************************************************)
(* The reader's operations                                                 *)
(***************************************************************************)

NoOp == [op |-> "new", h |-> 1, p |-> 0, n |-> 0, ok |-> TRUE, bytes |-> <<>>, src |-> 1]

\* CloneableSeekableReader::new
ReaderInit ==
    /\ r_pos = 0
    /\ inner_pos = 0
    /\ inner_len = None
    /\ pos = [h \in Holders |-> IF h = 1 THEN 0 ELSE Absent]
    /\ inner_ref = [h \in Holders |-> IF h = 1 THEN 1 ELSE 0]
    /\ last = NoOp
    /\ faulty \in BOOLEAN

\* Clone for CloneableSeekableReader: the clone's pos is a copy of self.pos.
\* (ClonePosZero: a clone that rewinds.)
ClonePosZero(p) == 0

ClonePos(p) == p

Clone(h, c) ==
    /\ pos[h] # Absent
    /\ pos[c] = Absent
    /\ pos' = [pos EXCEPT ![c] = ClonePos(pos[h])]
    /\ inner_ref' = [inner_ref EXCEPT ![c] = inner_ref[h]]
    /\ last' = [op |-> "clone", h |-> c, p |-> pos[h], n |-> 0, ok |-> TRUE,
                bytes |-> <<>>, src |-> h]
    /\ UNCHANGED <<r_pos, inner_pos, inner_len, faulty>>

\* Read for CloneableSeekableReader: the whole of read() runs with the inner
\* mutex held.
Read(h, n) ==
    /\ pos[h] # Absent
    /\ inner_pos + n <= MaxPos
    /\ \E o \in ReadAtOutcomes(r_pos, inner_pos, pos[h], n, faulty) :
          /\ r_pos' = o.rp
          /\ inner_pos' = o.ip
          /\ pos' = [pos EXCEPT ![h] = IF o.ok THEN pos[h] + Len(o.bytes) ELSE pos[h]]
          /\ last' = [op |-> "read", h |-> h, p |-> pos[h], n |-> n, ok |-> o.ok,
                      bytes |-> o.bytes, src |-> h]
    /\ UNCHANGED <<inner_len, inner_ref, faulty>>

\* A seek that moves the source at once instead of leaving it to the next read.
SeekEager(h, from) ==
    /\ pos[h] # Absent
    /\ LET res == SeekResult(pos[h], InnerLen(inner_len), from)
       IN  /\ ~res.overflow
           /\ res.pos <= MaxPos
           /\ pos' = [pos EXCEPT ![h] = IF res.ok THEN res.pos ELSE pos[h]]
           /\ r_pos' = IF res.ok THEN res.pos ELSE r_pos
           /\ inner_pos' = IF res.ok THEN res.pos ELSE inner_pos
           /\ inner_len' = IF from.kind = "End" THEN InnerLen(inner_len) ELSE inner_len
           /\ last' = [op |-> "seek", h |-> h, p |-> pos[h], n |-> 0, ok |-> res.ok,
                       bytes |-> <<>>, src |-> h]
    /\ UNCHANGED <<inner_ref, faulty>>

\* Seek for CloneableSeekableReader
Seek(h, from) ==
    /\ pos[h] # Absent
    /\ LET res == SeekResult(pos[h], InnerLen(inner_len), from)
       IN  /\ ~res.overflow
           /\ res.pos <= MaxPos
           /\ pos' = [pos EXCEPT ![h] = IF res.ok THEN res.pos ELSE pos[h]]
           /\ inner_len' = IF from.kind = "End" THEN InnerLen(inner_len) ELSE inner_len
           /\ last' = [op |-> "seek", h |-> h, p |-> pos[h], n |-> 0, ok |-> res.ok,
                       bytes |-> <<>>, src |-> h]
    /\ UNCHANGED <<r_pos, inner_pos, inner_ref, faulty>>

SpecReaderInit == ReaderInit /\ FsIdle /\ UnzipIdle /\ PartsIdle
SpecReaderNext ==
    \/ \E h \in Holders, c \in Holders :
          Clone(h, c) /\ UNCHANGED <<fsVars, unzipVars, partVars>>
    \/ \E h \in Holders, n \in 0..MaxBuf :
          Read(h, n) /\ UNCHANGED <<fsVars, unzipVars, partVars>>
    \/ \E h \in Holders, from \in SeekInputs :
          Seek(h, from) /\ UNCHANGED <<fsVars, unzipVars, partVars>>
SpecReader == SpecReaderInit /\ [][SpecReaderNext]_vars

(***************************************************************************)
(* Claims about the CloneableSeekableReader (checked under SpecReader)     *)
(***************************************************************************)

\* What a read of n bytes by a holder at logical position p must return: some
\* admissible number of the bytes the source holds from offset p on.
IsSourceReadAt(bytes, p, n) ==
    /\ Len(bytes) \in ReadLens(p, n)
    /\ bytes = BytesAt(p, Len(bytes))

\* C2 (shown already for a source that never raises an I/O error): a
\* successful read by a holder whose logical position is p returns exactly
\* the bytes the source holds starting at offset p, for any sequence of seeks
\* and reads on any number of clones.
C2_ReadReturnsBytesAtPos ==
    (~faulty /\ last.op = "read" /\ last.ok)
        => IsSourceReadAt(last.bytes, last.p, last.n)

\* C3 (shown already for a source that never raises an I/O error): an
\* operation on one clone changes neither the logical position of another
\* clone nor the bytes that other clone's next read returns: a read that
\* follows an operation of another holder still returns the source bytes at
\* the reader's own position.
C3_ClonesIndependent ==
    [][ /\ \A g \in Holders :
              (g # last'.h /\ pos[g] # Absent) => pos'[g] = pos[g]
        /\ (~faulty /\ last'.op = "read" /\ last'.ok /\ last.h # last'.h)
              => IsSourceReadAt(last'.bytes, last'.p, last'.n) ]_vars

\* C9 as stated: a clone starts at logical position 0, whatever the position
\* of the reader it was cloned from, and shares the same inner source.
C9_CloneStartsAtZero ==
    last.op = "clone" =>
        (pos[last.h] = 0 /\ inner_ref[last.h] = inner_ref[last.src])

\* C9 as amended: a clone starts at the logical position its original has at
\* the moment of cloning (0 only if the original is at 0), the original keeps
\* its position, and both share the same inner source.
C9_CloneCopiesPosition ==
    last.op = "clone" =>
        /\ pos[last.h] = last.p
        /\ pos[last.src] = last.p
        /\ inner_ref[last.h] = inner_ref[last.src]
        /\ inner_ref[last.h] # 0

C9_Witness ==
    last.op = "clone" /\ last.p > 0 /\ pos[last.h] = last.p

\* C10: seek (Start, End or Current, succeeding or failing) changes only the
\* seeking holder's logical position: the source's own position, the shared
\* physical position Inner.pos and every other holder's logical position
\* stay as they were.
C10_SeekIsArithmetic ==
    [][ last'.op = "seek" =>
          /\ r_pos' = r_pos
          /\ inner_pos' = inner_pos
          /\ \A g \in Holders : g # last'.h => pos'[g] = pos[g] ]_vars

C10_Witness ==
    /\ last.op = "seek" /\ last.ok
    /\ pos[last.h] # last.p
    /\ inner_len = SrcLen
    /\ r_pos # pos[last.h]
    /\ \E g \in Holders : g # last.h /\ pos[g] # Absent /\ pos[g] # pos[last.h]

\* C13 (shown already for a source that never raises an I/O error): for any
\* holder, after any history of reads and seeks on any clones, a seek to
\* position L (the length of the source) followed by a read of that holder
\* returns 0 bytes and no error.
C13_ReadAtEndReturnsNothing ==
    [][ ( /\ ~faulty
          /\ last.op = "seek" /\ last.ok /\ pos[last.h] = SrcLen
          /\ last'.op = "read" /\ last'.h = last.h )
            => (last'.ok /\ last'.bytes = <<>>) ]_vars

\* C18 (shown already for a source that never raises an I/O error): after
\* any operation of the reader has returned, the shared physical position
\* Inner.pos equals the true position of the underlying source.
C18_InnerPosIsSourcePos ==
    ~faulty => inner_pos = r_pos

(***************************************************************************)
(* read(), step by step: every holder is a clone in the hands of its own   *)
(* thread; all share one Mutex<Inner>.                                     *)
(***************************************************************************)

NoSrcOp == [h |-> 0, op |-> "none", ok |-> TRUE, seq |-> 0]
SrcOp(h, op, ok) == [h |-> h, op |-> op, ok |-> ok, seq |-> 1 - lk_lastop.seq]
NoRes == [ok |-> TRUE, k |-> 0]

\* new(), then a clone for every other thread, all at position 0
LockInit ==
    /\ r_pos = 0
    /\ inner_pos = 0
    /\ inner_len = None
    /\ pos = [h \in Holders |-> 0]
    /\ inner_ref = [h \in Holders |-> 1]
    /\ last = NoOp
    /\ faulty \in BOOLEAN
    /\ lk_mutex = 0
    /\ lk_pc = [h \in Holders |-> "idle"]
    /\ lk_res = [h \in Holders |-> NoRes]
    /\ lk_lastop = NoSrcOp

\* seek(SeekFrom::Start(n)) between two reads: no lock, no source access
LkSeekStart(h, n) ==
    /\ lk_pc[h] = "idle"
    /\ pos' = [pos EXCEPT ![h] = SeekResult(pos[h], InnerLen(inner_len), SeekStart(n)).pos]
    /\ UNCHANGED <<r_pos, inner_pos, inner_len, inner_ref, last, faulty, lockVars>>

\* read(buf) is called
RdCall(h) ==
    /\ lk_pc[h] = "idle"
    /\ lk_pc' = [lk_pc EXCEPT ![h] = "lock"]
    /\ UNCHANGED <<readerVars, lk_mutex, lk_res, lk_lastop>>

\* A lock that does not wait for the holder of the mutex.
RdLockNoWait(h) ==
    /\ lk_pc[h] = "lock"
    /\ lk_mutex' = h
    /\ lk_pc' = [lk_pc EXCEPT ![h] = "read_at"]
    /\ UNCHANGED <<readerVars, lk_res, lk_lastop>>

\* `let mut inner = self.inner.lock().unwrap();`
RdLock(h) ==
    /\ lk_pc[h] = "lock"
    /\ lk_mutex = 0
    /\ lk_mutex' = h
    /\ lk_pc' = [lk_pc EXCEPT ![h] = "read_at"]
    /\ UNCHANGED <<readerVars, lk_res, lk_lastop>>

\* read_at: `if offset != self.pos { self.r.seek(SeekFrom::Start(offset))?; }`
RdSeek(h) ==
    /\ lk_pc[h] = "read_at"
    /\ IF pos[h] # inner_pos
       THEN \/ /\ r_pos' = pos[h]
               /\ lk_lastop' = SrcOp(h, "seek", TRUE)
               /\ lk_pc' = [lk_pc EXCEPT ![h] = "read"]
               /\ UNCHANGED lk_res
            \/ /\ faulty
               /\ lk_lastop' = SrcOp(h, "seek", FALSE)
               /\ lk_res' = [lk_res EXCEPT ![h] = [ok |-> FALSE, k |-> 0]]
               /\ lk_pc' = [lk_pc EXCEPT ![h] = "ret"]
               /\ UNCHANGED r_pos
       ELSE /\ lk_pc' = [lk_pc EXCEPT ![h] = "read"]
            /\ UNCHANGED <<r_pos, lk_res, lk_lastop>>
    /\ UNCHANGED <<inner_pos, inner_len, pos, inner_ref, last, faulty, lk_mutex>>

\* read_at: `self.r.read(buf)` and `self.pos += bytes_read`
RdRead(h, n) ==
    /\ lk_pc[h] = "read"
    /\ \/ \E k \in ReadLens(r_pos, n) :
             /\ inner_pos + k <= MaxPos
             /\ r_pos' = r_pos + k
             /\ inner_pos' = InnerPosAfterRead(inner_pos, pos[h], k)
             /\ lk_res' = [lk_res EXCEPT ![h] = [ok |-> TRUE, k |-> k]]
             /\ lk_lastop' = SrcOp(h, "read", TRUE)
       \/ /\ faulty
          /\ lk_res' = [lk_res EXCEPT ![h] = [ok |-> FALSE, k |-> 0]]
          /\ lk_lastop' = SrcOp(h, "read", FALSE)
          /\ UNCHANGED <<r_pos, inner_pos>>
    /\ lk_pc' = [lk_pc EXCEPT ![h] = "ret"]
    /\ UNCHANGED <<inner_len, pos, inner_ref, last, faulty, lk_mutex>>

\* `self.pos += bytes_read` on Ok; read() returns and the guard is dropped
RdReturn(h) ==
    /\ lk_pc[h] = "ret"
    /\ pos' = [pos EXCEPT ![h] = IF lk_res[h].ok THEN pos[h] + lk_res[h].k ELSE pos[h]]
    /\ lk_mutex' = 0
    /\ lk_pc' = [lk_pc EXCEPT ![h] = "idle"]
    /\ lk_res' = [lk_res EXCEPT ![h] = NoRes]
    /\ UNCHANGED <<r_pos, inner_pos, inner_len, inner_ref, last, faulty, lk_lastop>>

SpecLockInit == LockInit /\ LockOthersIdle
SpecLockNext ==
    \/ \E h \in Holders, n \in 0..SrcLen : LkSeekStart(h, n) /\ UNCHANGED lockOthers
    \/ \E h \in Holders : RdCall(h) /\ UNCHANGED lockOthers
    \/ \E h \in Holders : RdLock(h) /\ UNCHANGED lockOthers
    \/ \E h \in Holders : RdSeek(h) /\ UNCHANGED lockOthers
    \/ \E h \in Holders, n \in 0..MaxBuf : RdRead(h, n) /\ UNCHANGED lockOthers
    \/ \E h \in Holders : RdReturn(h) /\ UNCHANGED lockOthers
SpecLock == SpecLockInit /\ [][SpecLockNext]_vars

\* The holders that are inside read() past the lock().
InRead == {h \in Holders : lk_pc[h] \in {"read_at", "read", "ret"}}

\* A step that issues a seek or a read on the source: it is made by the
\* holder of the mutex, and after a holder's reconciling seek it is that
\* holder's read.
C19_SourceSteps ==
    /\ lk_lastop' # lk_lastop =>
          /\ lk_mutex = lk_lastop'.h
          /\ (lk_lastop.op = "seek" /\ lk_lastop.ok)
                => (lk_lastop'.h = lk_lastop.h /\ lk_lastop'.op = "read")
    /\ r_pos' # r_pos => lk_lastop' # lk_lastop

\* C19: only one physical seek+read on the shared source executes at a
\* time: the reconciling seek and the following read of one holder's read()
\* are never interleaved with a seek or read on the source issued by
\* another clone.
C19_SeekAndReadUnderOneLock ==
    /\ [](\A h \in InRead : lk_mutex = h)
    /\ [][C19_SourceSteps]_vars

\* A holder has made its reconciling seek and not yet its read, while
\* another holder has called read() and waits for the mutex.
C19_Witness ==
    \E h, g \in Holders :
        /\ h # g
        /\ lk_pc[h] = "read" /\ lk_lastop = [NoSrcOp EXCEPT !.h = h, !.op = "seek", !.seq = lk_lastop.seq]
        /\ lk_pc[g] = "lock"
        /\ lk_mutex = h

(***************************************************************************)
(* The filesystem under the output directory. A path is the sequence of    *)
(* its components below the output directory; <<>> is the output directory *)
(* itself, whose own parent exists.                                        *)
(***************************************************************************)

AllPaths == {<<>>, <<"t">>, <<"t", "a">>, <<"t", "u">>, <<"b">>, <<"c">>}

NoNode == [kind |-> "none", data |-> <<>>]
DirNode == [kind |-> "dir", data |-> <<>>]
FileNode(d) == [kind |-> "file", data |-> d]

Parent(p) == SubSeq(p, 1, Len(p) - 1)

IsDir(f, p) == f[p].kind = "dir"
IsFile(f, p) == f[p].kind = "file"

\* Path::exists (a stat that succeeds). With a trailing slash, as in the out_path
\* of a directory entry, the stat of a regular file fails.
PathExists(f, p, slash) == IsDir(f, p) \/ (IsFile(f, p) /\ ~slash)

\* mkdir(2): "ok", or the error kind.
Mkdir(f, p) ==
    IF f[p].kind # "none" THEN "AlreadyExists"
    ELSE IF p = <<>> THEN "ok"
    ELSE IF f[Parent(p)].kind = "none" THEN "NotFound"
    ELSE IF f[Parent(p)].kind = "file" THEN "NotADirectory"
    ELSE "ok"

\* std::fs::create_dir (not recursive), as [ok, fs].
StdCreateDir(f, p) ==
    IF Mkdir(f, p) = "ok"
    THEN [ok |-> TRUE, fs |-> [f EXCEPT ![p] = DirNode]]
    ELSE [ok |-> FALSE, fs |-> f]

\* std::fs::create_dir_all, as [ok, fs]: mkdir; on NotFound create the parent
\* first and mkdir again; any other mkdir error is fine if the path is a
\* directory by now.
RECURSIVE StdCreateDirAll(_, _)
StdCreateDirAll(f, p) ==
    LET first == Mkdir(f, p)
    IN  IF first = "ok" THEN [ok |-> TRUE, fs |-> [f EXCEPT ![p] = DirNode]]
        ELSE IF first # "NotFound" THEN [ok |-> IsDir(f, p), fs |-> f]
        ELSE LET up == StdCreateDirAll(f, Parent(p))
             IN  IF ~up.ok THEN up
                 ELSE IF Mkdir(up.fs, p) = "ok"
                      THEN [ok |-> TRUE, fs |-> [up.fs EXCEPT ![p] = DirNode]]
                      ELSE [ok |-> IsDir(up.fs, p), fs |-> up.fs]

\* File::create: [ok, fs]; an existing file is truncated.
\* (FileCreateKeep: opened without truncation.)
FileCreateKeep(f, p) ==
    IF p # <<>> /\ IsDir(f, Parent(p)) /\ ~IsDir(f, p)
    THEN [ok |-> TRUE,
          fs |-> [f EXCEPT ![p] = IF IsFile(f, p) THEN f[p] ELSE FileNode(<<>>)]]
    ELSE [ok |-> FALSE, fs |-> f]

FileCreate(f, p) ==
    IF p # <<>> /\ IsDir(f, Parent(p)) /\ ~IsDir(f, p)
    THEN [ok |-> TRUE, fs |-> [f EXCEPT ![p] = FileNode(<<>>)]]
    ELSE [ok |-> FALSE, fs |-> f]

\* A write of `bytes` at offset o through an open file handle: what the file
\* holds afterwards (a hole left by a truncation reads as zeros).
WriteAt(d, o, bytes) ==
    LET n == IF Len(d) > o + Len(bytes) THEN Len(d) ELSE o + Len(bytes)
    IN  [j \in 1..n |->
            IF j > o /\ j <= o + Len(bytes) THEN bytes[j - o]
            ELSE IF j <= Len(d) THEN d[j] ELSE 0]

(***************************************************************************)
(* DirectoryCreator::create_dir_all, step by step, for a thread t.         *)
(***************************************************************************)

NoCall == [pc |-> "idle", path |-> <<>>, slash |-> FALSE, ok |-> TRUE, slow |-> FALSE]

\* The call is made.
DcCall(t, p, slash) ==
    dcall' = [dcall EXCEPT ![t] =
                 [pc |-> "fast", path |-> p, slash |-> slash, ok |-> TRUE, slow |-> FALSE]]

\* Fast path: `if path.exists() { return Ok(()) }`, without the lock.
DcFast(t) ==
    /\ dcall[t].pc = "fast"
    /\ dcall' = [dcall EXCEPT ![t].pc =
                    IF PathExists(fs, dcall[t].path, dcall[t].slash) THEN "done" ELSE "lock"]
    /\ UNCHANGED <<fs, dc_mutex>>

\* A lock that does not wait for the holder of the mutex.
DcLockNoWait(t) ==
    /\ dcall[t].pc = "lock"
    /\ dc_mutex' = t
    /\ dcall' = [dcall EXCEPT ![t].pc = "slow", ![t].slow = TRUE]
    /\ UNCHANGED fs

\* `let _exclusivity = self.0.lock().unwrap();`
DcLock(t) ==
    /\ dcall[t].pc = "lock"
    /\ dc_mutex = 0
    /\ dc_mutex' = t
    /\ dcall' = [dcall EXCEPT ![t].pc = "slow", ![t].slow = TRUE]
    /\ UNCHANGED fs

\* The check again, under the lock; returning drops the guard.
DcRecheck(t) ==
    /\ dcall[t].pc = "slow"
    /\ IF PathExists(fs, dcall[t].path, dcall[t].slash)
       THEN /\ dcall' = [dcall EXCEPT ![t].pc = "done"]
            /\ dc_mutex' = 0
       ELSE /\ dcall' = [dcall EXCEPT ![t].pc = "create"]
            /\ UNCHANGED dc_mutex
    /\ UNCHANGED fs

\* The recursive creation the DirectoryCreator ends with (a non-recursive
\* create_dir in its place is DcCreateResultFlat).
DcCreateResultFlat(f, p) == StdCreateDir(f, p)

DcCreateResult(f, p) == StdCreateDirAll(f, p)

\* `std::fs::create_dir_all(path).with_context(..)`, then the guard is dropped.
DcCreate(t) ==
    /\ dcall[t].pc = "create"
    /\ LET res == DcCreateResult(fs, dcall[t].path)
       IN  /\ fs' = res.fs
           /\ dcall' = [dcall EXCEPT ![t].pc = "done", ![t].ok = res.ok]
    /\ dc_mutex' = 0

(***************************************************************************)
(* Concurrent callers of the DirectoryCreator on a tree without files.     *)
(***************************************************************************)

\* number of threads calling create_dir_all
NumCallers == 2

Callers == 1..NumCallers

DirPaths == {<<>>, <<"t">>, <<"t", "a">>, <<"t", "u">>, <<"b">>}

DirInit ==
    /\ fs = [p \in AllPaths |-> NoNode]
    /\ dc_mutex = 0
    /\ dcall = [t \in Callers |-> NoCall]

\* A thread calls create_dir_all(p) (again, once its last call has returned).
DirCall(t, p) ==
    /\ dcall[t].pc \in {"idle", "done"}
    /\ DcCall(t, p, FALSE)
    /\ UNCHANGED <<fs, dc_mutex>>

SpecDirInit == DirInit /\ ReaderIdle /\ UnzipIdle /\ PartsIdle
SpecDirNext ==
    \/ \E t \in Callers, p \in DirPaths :
          DirCall(t, p) /\ UNCHANGED <<readerVars, unzipVars, partVars>>
    \/ \E t \in Callers : DcFast(t) /\ UNCHANGED <<readerVars, unzipVars, partVars>>
    \/ \E t \in Callers : DcLock(t) /\ UNCHANGED <<readerVars, unzipVars, partVars>>
    \/ \E t \in Callers : DcRecheck(t) /\ UNCHANGED <<readerVars, unzipVars, partVars>>
    \/ \E t \in Callers : DcCreate(t) /\ UNCHANGED <<readerVars, unzipVars, partVars>>
SpecDir == SpecDirInit /\ [][SpecDirNext]_vars

(***************************************************************************)
(* Claims about the DirectoryCreator (checked under SpecDir)               *)
(***************************************************************************)

\* Two paths overlap: they are the same or share the ancestor below the
\* output directory.
Overlap(p, q) == p # <<>> /\ q # <<>> /\ p[1] = q[1]

\* C8: concurrent create_dir_all calls on the same path or on paths sharing
\* ancestors, with no component existing as a regular file, all return
\* success, and each requested path is a directory once its call has
\* returned.
C8_ConcurrentCreateDirAll ==
    \A t \in Callers :
        dcall[t].pc = "done" => (dcall[t].ok /\ IsDir(fs, dcall[t].path))

\* Two callers that both missed the fast path for overlapping paths, one of
\* them a nested path, have both returned.
C8_Witness ==
    \E t, u \in Callers :
        /\ t # u
        /\ dcall[t].pc = "done" /\ dcall[u].pc = "done"
        /\ dcall[t].slow /\ dcall[u].slow
        /\ Overlap(dcall[t].path, dcall[u].path)
        /\ Len(dcall[t].path) = 2

\* The threads that are in std::fs::create_dir_all.
Creating == {t \in Callers : dcall[t].pc = "create"}

\* How create_dir_all may proceed for a thread, as C20 has it.
C20_Steps ==
    /\ \A t \in Callers :
          \* the path exists at the first check: return, mutex not touched
          /\ (dcall[t].pc = "fast" /\ dcall'[t] # dcall[t]
                /\ PathExists(fs, dcall[t].path, dcall[t].slash))
                => /\ dcall'[t].pc = "done" /\ ~dcall'[t].slow
                   /\ dc_mutex' = dc_mutex /\ dc_mutex # t
          \* the creation is entered from the re-check under the mutex only
          /\ (dcall'[t].pc = "create" /\ dcall[t].pc # "create")
                => /\ dcall[t].pc = "slow" /\ dc_mutex = t /\ dc_mutex' = t
                   /\ ~PathExists(fs, dcall[t].path, dcall[t].slash)
    \* the tree changes only by the step of a thread that holds the mutex
    /\ fs' # fs => \E t \in Creating : dc_mutex = t /\ dcall'[t].pc = "done"

\* C20: in DirectoryCreator::create_dir_all a caller whose path already
\* exists returns without acquiring the mutex; the recursive creation is
\* performed only by a thread that holds the mutex and has re-checked under
\* it that the path does not exist; so at most one thread is creating
\* directories at any time.
C20_CreationUnderMutex ==
    /\ [](\A t \in Creating : dc_mutex = t /\ dcall[t].slow)
    /\ [](Cardinality(Creating) <= 1)
    /\ [][C20_Steps]_vars

\* One thread is creating under the mutex while another, which also missed
\* the fast path, waits for the mutex, after a call that returned on the
\* fast path.
C20_Witness ==
    \E t, u \in Callers :
        /\ t # u
        /\ dcall[t].pc = "create" /\ dc_mutex = t
        /\ dcall[u].pc = "lock"
        /\ \E q \in DirPaths : IsDir(fs, q) /\ q # <<>>

(***************************************************************************)
(* ProgressUpdater: uncompressed bytes written, turned into compressed     *)
(* bytes reported.                                                         *)
(***************************************************************************)

\* the largest compressed and uncompressed size of an entry
MaxSize == 5

\* the tick granularity extract_file_inner passes (1024 * 1024), scaled
TickGranularity == 2

RECURSIVE SumSeq(_)
SumSeq(q) == IF q = <<>> THEN 0 ELSE Head(q) + SumSeq(Tail(q))

\* A tick rounded up instead of down.
PerTickCeil(c, u) ==
    IF u = 0 THEN 0 ELSE (TickGranularity * c + u - 1) \div u

\* What one tick emits: floor(tick_granularity * compressed_size /
\* uncompressed_size); nothing is emitted by ticks if uncompressed_size is 0.
PerTick(c, u) ==
    IF u = 0 THEN 0 ELSE (TickGranularity * c) \div u

\* progress(b) with acc bytes accumulated: the tick boundaries crossed.
TicksCrossed(acc, b) == (acc + b) \div TickGranularity

\* finish(): the remaining amount, so that the total is compressed_size.
Remainder(c, emitted) == c - emitted

ProgressInit ==
    /\ pu_c \in 0..MaxSize
    /\ pu_u \in 0..MaxSize
    /\ pu_acc = 0
    /\ pu_written = 0
    /\ pu_deltas = <<>>
    /\ pu_pc = "copying"

\* std::io::copy writes b bytes through the ProgressWriter, which calls
\* progress_updater.progress(b).
PuProgress(b) ==
    /\ pu_pc = "copying"
    /\ pu_written + b <= pu_u
    /\ pu_written' = pu_written + b
    /\ pu_acc' = (pu_acc + b) % TickGranularity
    /\ pu_deltas' = pu_deltas \o [j \in 1..TicksCrossed(pu_acc, b) |-> PerTick(pu_c, pu_u)]
    /\ UNCHANGED <<pu_c, pu_u, pu_pc>>

\* std::io::copy fails: `?` returns before finish().
PuCopyFails ==
    /\ pu_pc = "copying"
    /\ pu_pc' = "failed"
    /\ UNCHANGED <<pu_c, pu_u, pu_acc, pu_written, pu_deltas>>

\* std::io::copy has written the whole entry: progress_updater.finish().
PuFinish ==
    /\ pu_pc = "copying"
    /\ pu_written = pu_u
    /\ pu_deltas' = Append(pu_deltas, Remainder(pu_c, SumSeq(pu_deltas)))
    /\ pu_pc' = "done"
    /\ UNCHANGED <<pu_c, pu_u, pu_acc, pu_written>>

SpecProgressInit == ProgressInit /\ ProgOthersIdle
SpecProgressNext ==
    \/ \E b \in 1..MaxBuf : PuProgress(b) /\ UNCHANGED progOthers
    \/ PuCopyFails /\ UNCHANGED progOthers
    \/ PuFinish /\ UNCHANGED progOthers
SpecProgress == SpecProgressInit /\ [][SpecProgressNext]_vars

NumEntries == 2
\* number of threads of the worker pool
NumWorkers == 2
\* bytes written by one write of std::io::copy
ChunkSize == 1

Tasks == 1..NumEntries

\* enclosed_name() of an entry whose name is not safe
NoPath == <<"..">>

\* An archive entry, as the ZIP library presents it: the raw name, the
\* enclosed name as a path below the output directory (NoPath if the name is
\* unsafe), whether the raw name ends with '/', the decompressed bytes,
\* whether by_index succeeds, whether decompression fails after the first
\* byte, and the compressed size.
Entry(name, path, isdir, data, opens, corrupt) ==
    [name |-> name, path |-> path, isdir |-> isdir, data |-> data,
     opens |-> opens, corrupt |-> corrupt, csize |-> Len(data) + 1]

Templates ==
    { Entry("t/", <<"t">>, TRUE, <<>>, TRUE, FALSE),
      Entry("t/a", <<"t", "a">>, FALSE, <<1, 2>>, TRUE, FALSE),
      Entry("b", <<"b">>, FALSE, <<3>>, TRUE, FALSE),
      Entry("./b", <<"b">>, FALSE, <<4, 5>>, TRUE, FALSE),
      Entry("t", <<"t">>, FALSE, <<6>>, TRUE, FALSE),
      Entry("c", <<"c">>, FALSE, <<7, 8>>, TRUE, TRUE),
      Entry("../x", NoPath, FALSE, <<9>>, TRUE, FALSE),
      Entry("?", NoPath, FALSE, <<>>, FALSE, FALSE) }

\* The name handed to the filter and used in messages: the enclosed name, or
\* "<unprintable>" if there is none.
DisplayName(e) == IF e.path = NoPath THEN "<unprintable>" ELSE e.name

EmptyTree == [p \in AllPaths |-> NoNode]

\* The output tree before the run: no output directory yet, an empty one, or
\* one that holds an older file b.
InitTrees ==
    { EmptyTree,
      [EmptyTree EXCEPT ![<<>>] = DirNode],
      [EmptyTree EXCEPT ![<<>>] = DirNode, ![<<"b">>] = FileNode(<<0, 0, 0>>)] }

NoRet == [i |-> 0, kind |-> "none", ctx |-> FALSE]
OkRet(i) == [i |-> i, kind |-> "ok", ctx |-> FALSE]
\* An error of the task of entry i; ctx: annotated "Failed to extract {name}".
\* (ErrRetBare: an error that never gets the annotation.)
ErrRetBare(i, kind, ctx) == [i |-> i, kind |-> kind, ctx |-> FALSE]

ErrRet(i, kind, ctx) == [i |-> i, kind |-> kind, ctx |-> ctx]

IsErr(r) == r.kind \notin {"none", "ok"}

\* The calls of the progress reporter for one entry, none so far.
NoEvents == [starting |-> 0, finished |-> 0]

Running(i) == pc[i] \notin {"ready", "done"}

\* The bytes of an archive file that are not the compressed data of its
\* entries, scaled: the end-of-central-directory record every archive ends
\* with, and the local and central headers of each entry.
EndRecordLen == 1
EntryHeadersLen == 1

RECURSIVE SumCSize(_, _)
SumCSize(a, n) == IF n = 0 THEN 0 ELSE a[n].csize + SumCSize(a, n - 1)

\* zipfile.len(): the length of the archive file.
ArchiveLen(a) == EndRecordLen + NumEntries * EntryHeadersLen + SumCSize(a, NumEntries)

UnzipInit ==
    /\ single_threaded \in BOOLEAN
    /\ archive \in [Tasks -> Templates]
    /\ filter \in [{DisplayName(archive[i]) : i \in Tasks} -> BOOLEAN]
    /\ fs \in InitTrees
    /\ fs0 = fs
    /\ dc_mutex = 0
    /\ dcall = [i \in Tasks |-> NoCall]
    /\ next_idx = 0
    /\ pc = [i \in Tasks |-> "ready"]
    /\ off = [i \in Tasks |-> 0]
    /\ taskRet = [i \in Tasks |-> NoRet]
    /\ errors = <<>>
    /\ retval = NoRet
    /\ filterCalls = [i \in Tasks |-> 0]
    /\ attempts = [i \in Tasks |-> 0]
    /\ wrote = [i \in Tasks |-> FALSE]
    /\ skips = <<>>
    /\ total_expected = ArchiveLen(archive)
    /\ reported = [i \in Tasks |-> 0]
    /\ events = [i \in Tasks |-> NoEvents]

\* .filter_map(Result::err).collect(): the lists the error e may be collected
\* into. In order in the serial case; a parallel collect does not keep the
\* order of the indices.
Collect(errs, e, single) ==
    IF single THEN {Append(errs, e)}
    ELSE {SubSeq(errs, 1, k) \o <<e>> \o SubSeq(errs, k + 1, Len(errs)) :
            k \in 0..Len(errs)}

\* The task of entry i returns r.
TaskReturns(i, r) ==
    /\ taskRet' = [taskRet EXCEPT ![i] = r]
    /\ pc' = [pc EXCEPT ![i] = "done"]
    /\ IF IsErr(r)
       THEN errors' \in Collect(errors, r, single_threaded)
       ELSE errors' = errors

\* The range iterator has no index left to hand out. (IteratorDoneFailFast: an
\* iteration that stops at the first error.)
IteratorDoneFailFast(nxt, errs) == nxt = NumEntries \/ errs # <<>>

IteratorDone(nxt, errs) == nxt = NumEntries

\* What extract_file_if_on_list does with an entry, given the filter's answer
\* for its name: "open" (by_index fails), "skip", "unsafe", "dir" or "file".
\* (StartOutcomeCheckFirst: the enclosed name checked before the filter is
\* asked. StartOutcomeNoFilter: the filter's answer ignored.)
StartOutcomeCheckFirst(e, accepted) ==
    IF ~e.opens THEN "open"
    ELSE IF e.path = NoPath THEN "unsafe"
    ELSE IF ~accepted THEN "skip"
    ELSE IF e.isdir THEN "dir" ELSE "file"

StartOutcomeNoFilter(e, accepted) ==
    IF ~e.opens THEN "open"
    ELSE IF e.path = NoPath THEN "unsafe"
    ELSE IF e.isdir THEN "dir" ELSE "file"

StartOutcome(e, accepted) ==
    IF ~e.opens THEN "open"
    ELSE IF ~accepted THEN "skip"
    ELSE IF e.path = NoPath THEN "unsafe"
    ELSE IF e.isdir THEN "dir" ELSE "file"

\* Whether the map may call its closure for the next index: in serial mode
\* once the call before has returned, in parallel mode once a worker is free.
\* (MayStartAnyFree: a serial mode that does not wait for the call before.)
MayStartAnyFree(single) ==
    Cardinality({j \in Tasks : Running(j)}) < NumWorkers

MayStart(single) ==
    IF single
    THEN \A j \in Tasks : ~Running(j)
    ELSE Cardinality({j \in Tasks : Running(j)}) < NumWorkers

\* The closure of the map is called for the next index: extract_file_if_on_list
\* up to its first call of the DirectoryCreator; extraction_starting is
\* emitted once extract_file_inner has the enclosed name.
Start(i) ==
    /\ retval = NoRet
    /\ ~IteratorDone(next_idx, errors)
    /\ i = next_idx + 1
    /\ MayStart(single_threaded)
    /\ next_idx' = next_idx + 1
    /\ attempts' = [attempts EXCEPT ![i] = @ + 1]
    /\ LET e == archive[i]
           out == StartOutcome(e, filter[DisplayName(e)])
       IN  /\ filterCalls' = [filterCalls EXCEPT ![i] = IF out = "open" THEN @ ELSE @ + 1]
           /\ skips' = IF out = "skip" THEN Append(skips, [i |-> i, size |-> e.csize])
                        ELSE skips
           /\ events' = IF out \in {"dir", "file"}
                         THEN [events EXCEPT ![i].starting = @ + 1]
                         ELSE events
           /\ CASE out = "open" ->
                     /\ TaskReturns(i, ErrRet(i, "open", FALSE))
                     /\ UNCHANGED dcall
                [] out = "skip" ->
                     /\ TaskReturns(i, OkRet(i))
                     /\ UNCHANGED dcall
                [] out = "unsafe" ->
                     /\ TaskReturns(i, ErrRet(i, "unsafe", TRUE))
                     /\ UNCHANGED dcall
                [] out = "dir" ->
                     /\ DcCall(i, e.path, TRUE)
                     /\ pc' = [pc EXCEPT ![i] = "mkdir"]
                     /\ UNCHANGED <<taskRet, errors>>
                [] out = "file" ->
                     /\ DcCall(i, Parent(e.path), FALSE)
                     /\ pc' = [pc EXCEPT ![i] = "mkdir"]
                     /\ UNCHANGED <<taskRet, errors>>
    /\ UNCHANGED <<fs, dc_mutex, off, retval, wrote, single_threaded, archive,
                   filter, fs0, total_expected, reported>>

\* What a step of the task's create_dir_all call leaves alone.
TaskDc(i) ==
    /\ pc[i] = "mkdir"
    /\ wrote' = [wrote EXCEPT ![i] = @ \/ fs' # fs]
    /\ UNCHANGED <<single_threaded, archive, filter, next_idx, pc, off, taskRet,
                   errors, retval, filterCalls, attempts, skips,
                   fs0, total_expected, reported, events>>

\* create_dir_all has returned. For a directory entry the rest of
\* extract_file_inner follows (set_permissions, extraction_finished); for a
\* file entry, File::create.
AfterMkdir(i) ==
    /\ pc[i] = "mkdir"
    /\ dcall[i].pc = "done"
    /\ LET e == archive[i]
       IN  IF ~dcall[i].ok
           THEN /\ TaskReturns(i, ErrRet(i, "mkdir", TRUE))
                /\ UNCHANGED <<fs, wrote, events>>
           ELSE IF e.isdir
           THEN /\ TaskReturns(i, OkRet(i))
                /\ events' = [events EXCEPT ![i].finished = @ + 1]
                /\ UNCHANGED <<fs, wrote>>
           ELSE LET res == FileCreate(fs, e.path)
                IN  IF res.ok
                    THEN /\ fs' = res.fs
                         /\ wrote' = [wrote EXCEPT ![i] = TRUE]
                         /\ pc' = [pc EXCEPT ![i] = "copy"]
                         /\ UNCHANGED <<taskRet, errors, events>>
                    ELSE /\ TaskReturns(i, ErrRet(i, "create", TRUE))
                         /\ UNCHANGED <<fs, wrote, events>>
    /\ dcall' = [dcall EXCEPT ![i] = NoCall]
    /\ UNCHANGED <<dc_mutex, single_threaded, archive, filter, next_idx, off,
                   retval, filterCalls, attempts, skips, fs0, total_expected, reported>>

\* std::io::copy: one read of decompressed bytes and the write of them; a
\* corrupt entry fails once its first byte is through.
Copy(i) ==
    /\ pc[i] = "copy"
    /\ off[i] < Len(archive[i].data)
    /\ LET e == archive[i]
           k == Min(ChunkSize, Len(e.data) - off[i])
           bytes == SubSeq(e.data, off[i] + 1, off[i] + k)
       IN  IF e.corrupt /\ off[i] >= 1
           THEN /\ TaskReturns(i, ErrRet(i, "write", TRUE))
                /\ UNCHANGED <<fs, off, reported>>
           ELSE /\ fs' = [fs EXCEPT ![e.path].data = WriteAt(@, off[i], bytes)]
                /\ off' = [off EXCEPT ![i] = @ + k]
                /\ reported' = [reported EXCEPT ![i] =
                        @ + TicksCrossed(off[i] % TickGranularity, k)
                              * PerTick(e.csize, Len(e.data))]
                /\ UNCHANGED <<pc, taskRet, errors>>
    /\ UNCHANGED <<dc_mutex, dcall, single_threaded, archive, filter, next_idx,
                   retval, filterCalls, attempts, wrote, skips, fs0, total_expected,
                   events>>

\* The copy is complete: progress_updater.finish(), set_permissions,
\* extraction_finished, Ok(()).
Finish(i) ==
    /\ pc[i] = "copy"
    /\ off[i] = Len(archive[i].data)
    /\ reported' = [reported EXCEPT ![i] = @ + Remainder(archive[i].csize, @)]
    /\ events' = [events EXCEPT ![i].finished = @ + 1]
    /\ TaskReturns(i, OkRet(i))
    /\ UNCHANGED <<fs, dc_mutex, dcall, single_threaded, archive, filter, next_idx,
                   off, retval, filterCalls, attempts, wrote, skips, fs0,
                   total_expected>>

\* `errors.into_iter().next().map(Result::Err).unwrap_or(Ok(()))`
\* (UnzipResultLast: the last error instead of the first.)
UnzipResultLast(errs) == IF errs = <<>> THEN OkRet(0) ELSE errs[Len(errs)]

UnzipResult(errs) == IF errs = <<>> THEN OkRet(0) ELSE Head(errs)

\* unzip_serial_or_parallel has collected every result; unzip_selective
\* returns.
Return ==
    /\ retval = NoRet
    /\ IteratorDone(next_idx, errors)
    /\ \A j \in Tasks : ~Running(j)
    /\ retval' = UnzipResult(errors)
    /\ UNCHANGED <<fs, dc_mutex, dcall, single_threaded, archive, filter, next_idx,
                   pc, off, taskRet, errors, filterCalls, attempts, wrote, skips,
                   fs0, total_expected, reported, events>>

SpecUnzipInit == UnzipInit /\ ReaderIdle /\ PartsIdle
SpecUnzipNext ==
    \/ \E i \in Tasks : Start(i) /\ UNCHANGED <<readerVars, partVars>>
    \/ \E i \in Tasks : DcFast(i) /\ TaskDc(i) /\ UNCHANGED <<readerVars, partVars>>
    \/ \E i \in Tasks : DcLock(i) /\ TaskDc(i) /\ UNCHANGED <<readerVars, partVars>>
    \/ \E i \in Tasks : DcRecheck(i) /\ TaskDc(i) /\ UNCHANGED <<readerVars, partVars>>
    \/ \E i \in Tasks : DcCreate(i) /\ TaskDc(i) /\ UNCHANGED <<readerVars, partVars>>
    \/ \E i \in Tasks : AfterMkdir(i) /\ UNCHANGED <<readerVars, partVars>>
    \/ \E i \in Tasks : Copy(i) /\ UNCHANGED <<readerVars, partVars>>
    \/ \E i \in Tasks : Finish(i) /\ UNCHANGED <<readerVars, partVars>>
    \/ Return /\ UNCHANGED <<readerVars, partVars>>
SpecUnzip == SpecUnzipInit /\ [][SpecUnzipNext]_vars

(***************************************************************************)
(* Claims about the orchestrator (checked under SpecUnzip)                 *)
(***************************************************************************)

Accepted(i) == filter[DisplayName(archive[i])]
Safe(i) == archive[i].path # NoPath
Returned == retval # NoRet
Success == retval.kind = "ok"

\* The output directory held no file before the run.
NoFilesBefore == \A p \in AllPaths : ~IsFile(fs0, p)

\* C1 as stated, for a run into an output directory that held no files (the
\* scenario the claim comes from): after unzip_selective returns success,
\* every accepted non-directory entry is a file at its enclosed name holding
\* exactly the entry's decompressed bytes, every accepted directory entry is
\* a directory, and no file exists for an entry the filter rejected.
C1_SuccessMeansExtracted ==
    (Success /\ NoFilesBefore) =>
        \A i \in Tasks :
            LET e == archive[i]
            IN  /\ (Accepted(i) /\ ~e.isdir) =>
                       (IsFile(fs, e.path) /\ fs[e.path].data = e.data)
                /\ (Accepted(i) /\ e.isdir) => IsDir(fs, e.path)
                /\ (~Accepted(i) /\ Safe(i)) => ~IsFile(fs, e.path)

\* Another accepted non-directory entry is written to the same file.
SharesFile(i) ==
    \E j \in Tasks :
        j # i /\ Accepted(j) /\ ~archive[j].isdir /\ archive[j].path = archive[i].path

\* C1 as amended: after unzip_selective returns success, every accepted
\* non-directory entry is a file at its enclosed name, holding exactly the
\* entry's decompressed bytes if no other accepted entry is written to the
\* same file; every accepted directory entry is a directory; and a file is at
\* a rejected entry's path only if it was there before the run or an accepted
\* entry has that path.
C1_SuccessMeansExtractedUnshared ==
    Success =>
        \A i \in Tasks :
            LET e == archive[i]
            IN  /\ (Accepted(i) /\ ~e.isdir) => IsFile(fs, e.path)
                /\ (Accepted(i) /\ ~e.isdir /\ ~SharesFile(i)) =>
                       fs[e.path].data = e.data
                /\ (Accepted(i) /\ e.isdir) => IsDir(fs, e.path)
                /\ (~Accepted(i) /\ Safe(i) /\ IsFile(fs, e.path)) =>
                       (IsFile(fs0, e.path) \/ SharesFile(i))

\* A parallel run has returned success: a two-byte entry was extracted below
\* a directory the run had to create, over an older tree or not, and another
\* entry was rejected and left no file.
C1_Witness ==
    /\ Success /\ ~single_threaded
    /\ \E i, j \in Tasks :
          /\ Accepted(i) /\ ~archive[i].isdir /\ Len(archive[i].data) = 2
          /\ ~IsDir(fs0, Parent(archive[i].path))
          /\ fs[archive[i].path].data = archive[i].data
          /\ ~Accepted(j) /\ Safe(j) /\ ~IsFile(fs, archive[j].path)

\* C4: the filter is consulted at most once per entry, and the task of an
\* entry the filter rejects returns success, has created no file or
\* directory and has read no decompressed byte of the entry.
C4_FilterOnceAndRejectIsInert ==
    \A i \in Tasks :
        /\ filterCalls[i] <= 1
        /\ (filterCalls[i] = 1 /\ ~Accepted(i)) =>
               /\ pc[i] = "done"
               /\ taskRet[i] = OkRet(i)
               /\ ~wrote[i]
               /\ off[i] = 0

\* A rejected file entry with bytes to extract, in a run that extracted
\* another entry.
C4_Witness ==
    \E i, j \in Tasks :
        /\ filterCalls[i] = 1 /\ ~Accepted(i) /\ Safe(i)
        /\ archive[i].data # <<>> /\ pc[i] = "done"
        /\ Accepted(j) /\ wrote[j]

\* C5 as stated: the task of an entry without an enclosed name fails with the
\* unsafe-path error and writes nothing, whatever the filter returns.
C5_UnsafeAlwaysFails ==
    \A i \in Tasks :
        (pc[i] = "done" /\ archive[i].opens /\ ~Safe(i)) =>
            (taskRet[i].kind = "unsafe" /\ ~wrote[i])

\* C5 as amended: the task of an entry without an enclosed name writes
\* nothing; it fails with the unsafe-path error if the filter accepts the
\* name "<unprintable>" it is asked about, and returns success, after the skip
\* hint, if the filter rejects that name.
C5_UnsafeFailsIfAccepted ==
    \A i \in Tasks :
        (pc[i] = "done" /\ archive[i].opens /\ ~Safe(i)) =>
            /\ ~wrote[i]
            /\ off[i] = 0
            /\ Accepted(i) => taskRet[i] = ErrRet(i, "unsafe", TRUE)
            /\ ~Accepted(i) =>
                  /\ taskRet[i] = OkRet(i)
                  /\ \E k \in 1..Len(skips) : skips[k].i = i

\* An unsafe entry the filter rejected has been skipped, and the run is over.
C5_Witness ==
    /\ Returned
    /\ \E i \in Tasks :
          /\ archive[i].opens /\ ~Safe(i) /\ ~Accepted(i)
          /\ taskRet[i] = OkRet(i)

\* C6: errors do not abort other tasks: when unzip_selective returns, in
\* parallel and in single-threaded mode, the extraction of every index has
\* been attempted exactly once (and never more than once before that).
C6_EveryIndexAttemptedOnce ==
    /\ \A i \in Tasks : attempts[i] <= 1
    /\ Returned => \A i \in Tasks : attempts[i] = 1 /\ taskRet[i] # NoRet

\* The first task failed and a later one still extracted its entry.
C6_Witness ==
    /\ Returned
    /\ IsErr(taskRet[1])
    /\ \E j \in Tasks : j > 1 /\ taskRet[j] = OkRet(j) /\ wrote[j]

\* The lowest index whose task failed.
LowestFailing == CHOOSE i \in Tasks :
    IsErr(taskRet[i]) /\ \A j \in Tasks : IsErr(taskRet[j]) => i <= j

\* C7: unzip_selective returns success if and only if no entry task returned
\* an error; otherwise it returns the first error of the collected list,
\* which in single-threaded mode is the error of the lowest failing index.
C7_FirstErrorReturned ==
    Returned =>
        /\ Success <=> (\A i \in Tasks : ~IsErr(taskRet[i]))
        /\ ~Success =>
              /\ retval = errors[1]
              /\ \E i \in Tasks : retval = taskRet[i]
              /\ single_threaded => retval = taskRet[LowestFailing]

\* A single-threaded run in which two tasks failed in different ways.
C7_Witness ==
    /\ Returned /\ single_threaded
    /\ Len(errors) >= 2
    /\ errors[1].kind # errors[2].kind
    /\ retval.i = 1

\* Every entry was accepted by the filter and its task returned success.
AllExtracted ==
    /\ retval = OkRet(0)
    /\ \A i \in Tasks : Accepted(i) /\ taskRet[i] = OkRet(i)

\* C17: after an unzip that extracts every entry successfully, the sum of
\* all bytes_extracted deltas received by the progress reporter equals the
\* number given to it in total_bytes_expected.
C17_ReportedAddsUpToExpected ==
    AllExtracted => SumSeq([i \in Tasks |-> reported[i]]) = total_expected

\* What the deltas do add up to: the compressed sizes of the file entries.
ReportedIsCompressedSizeOfFiles ==
    AllExtracted =>
        \A i \in Tasks :
            reported[i] = IF archive[i].isdir THEN 0 ELSE archive[i].csize

\* extract_file_inner got as far as the entry's enclosed name: the filter
\* accepted the entry and its name is safe.
Extracting(i) == attempts[i] = 1 /\ archive[i].opens /\ Accepted(i) /\ Safe(i)

\* C24: for every entry the orchestrator starts to extract,
\* extraction_starting is emitted before any output is written for the entry
\* and is followed by exactly one extraction_finished by the time the task of
\* the entry has returned, for file and directory entries alike and also when
\* the extraction of the entry fails.
C24_StartingThenOneFinished ==
    \A i \in Tasks :
        /\ wrote[i] => events[i].starting = 1
        /\ Extracting(i) =>
              /\ events[i].starting = 1
              /\ events[i].finished <= 1
              /\ pc[i] = "done" => events[i].finished = 1

\* What the events do: extraction_starting once, before any output, for every
\* entry that extract_file_inner has the enclosed name of and for no other;
\* extraction_finished once when the task returns success, never when it
\* returns an error.
ExtractionFinishedOnlyOnSuccess ==
    \A i \in Tasks :
        /\ wrote[i] => events[i].starting = 1
        /\ events[i].starting = (IF Extracting(i) THEN 1 ELSE 0)
        /\ events[i].finished =
              (IF Extracting(i) /\ taskRet[i] = OkRet(i) THEN 1 ELSE 0)

\* C25: with single_threaded set the entries are processed in ascending
\* index order and one at a time: the task of an index does not start before
\* the tasks of all lower indices have returned, and the skip hints are given
\* in ascending index order.
C25_SerialInAscendingOrder ==
    single_threaded =>
        /\ Cardinality({i \in Tasks : Running(i)}) <= 1
        /\ \A i, j \in Tasks : (i < j /\ attempts[j] = 1) => pc[i] = "done"
        /\ \A k, l \in 1..Len(skips) : k < l => skips[k].i < skips[l].i

\* A serial run in which every entry was rejected, so that there is a skip
\* hint for each, and one in which the last entry is being extracted after
\* the others have returned.
C25_Witness ==
    /\ single_threaded
    /\ \/ Len(skips) = NumEntries /\ Returned
       \/ /\ pc[NumEntries] = "copy"
          /\ \E i \in Tasks : i < NumEntries /\ wrote[i] /\ pc[i] = "done"

\* C26 as stated: every per-entry error that is collected, a failure to open
\* entry i in the archive included, is annotated with the entry's display
\* name.
C26_EveryErrorAnnotated ==
    \A k \in 1..Len(errors) : errors[k].ctx

\* C26 as amended: every collected error of an entry that was opened (the
\* errors of extract_file_inner) is annotated with the name the filter was
\* asked about; the failure to open entry i is collected as by_index
\* returned it, without annotation. Every failed task has its error in the
\* list exactly once.
C26_ErrorsOfOpenedEntriesAnnotated ==
    /\ \A k \in 1..Len(errors) :
          /\ errors[k] = taskRet[errors[k].i]
          /\ errors[k].ctx <=> errors[k].kind # "open"
          /\ errors[k].kind = "open" <=> ~archive[errors[k].i].opens
    /\ \A i \in Tasks :
          IsErr(taskRet[i]) =>
              Cardinality({k \in 1..Len(errors) : errors[k].i = i}) = 1

\* Both kinds of error were collected in one run: the bare error of an entry
\* that could not be opened and the annotated error of one that could.
C26_Witness ==
    /\ Returned
    /\ \E k, l \in 1..Len(errors) :
          /\ errors[k].kind = "open" /\ ~errors[k].ctx
          /\ errors[l].kind \in {"mkdir", "create", "write"} /\ errors[l].ctx

(***************************************************************************)
(* UnzipEngine::for_uri: the ranged engine, or the download into a         *)
(* temporary file when the ranged engine cannot be constructed.            *)
(***************************************************************************)

\* the longest remote archive, in bytes
MaxArchiveLen == 2

\* What a server may do with the URI: the length of the body, whether it
\* reports a content length, whether it honours ranges, whether the body is
\* a zip archive (an archive is never empty).
Servers ==
    {s \in [len : 0..MaxArchiveLen, content_length : BOOLEAN,
            ranges : BOOLEAN, valid : BOOLEAN] : s.valid => s.len > 0}

\* SeekableHttpReaderEngine::new: the probe request fails (net_ok false), or
\* the server reports no content length or honours no ranges: an error;
\* otherwise an engine that knows the length.
EngineNewResult(srv, net_ok) ==
    [ok |-> net_ok /\ srv.content_length /\ srv.ranges, len |-> srv.len]

\* ZipArchive::new(reader)?: reads the central directory through the reader.
ZipArchiveNew(srv, io_ok) == io_ok /\ srv.valid

UriPending == [state |-> "pending", engine |-> "none", len |-> 0, err |-> "none"]
UriOk(engine, len) == [state |-> "Ok", engine |-> engine, len |-> len, err |-> "none"]
UriErr(step) == [state |-> "Err", engine |-> "none", len |-> 0, err |-> step]

ForUriInit ==
    /\ uri_srv \in Servers
    /\ uri_pc = "new"
    /\ uri_tmp = None
    /\ uri_log = <<>>
    /\ uri_ret = UriPending

\* One fallible step of for_uri: on success go on at nxt, on failure `?`
\* returns the step's error.
UriStep(step, ok, nxt) ==
    /\ uri_log' = Append(uri_log, [step |-> step, ok |-> ok])
    /\ uri_pc' = IF ok THEN nxt ELSE "done"
    /\ uri_ret' = IF ok THEN uri_ret ELSE UriErr(step)

\* for_uri returning the engine's error instead of falling back.
AfterEngineNewPropagate(res) == IF res.ok THEN "open_remote" ELSE "return"

\* match seekable_http_reader { Ok(..) => .., Err(_) => .. }
AfterEngineNew(res) == IF res.ok THEN "open_remote" ELSE "get"

UriNew ==
    /\ uri_pc = "new"
    /\ \E net_ok \in BOOLEAN :
          LET res == EngineNewResult(uri_srv, net_ok)
              nxt == AfterEngineNew(res)
          IN  /\ uri_log' = Append(uri_log, [step |-> "engine", ok |-> res.ok])
              /\ uri_pc' = IF nxt = "return" THEN "done" ELSE nxt
              /\ uri_ret' = IF nxt = "return" THEN UriErr("engine") ELSE uri_ret
    /\ UNCHANGED <<uri_srv, uri_tmp>>

\* Ok branch: ZipArchive::new(seekable_http_reader.create_reader())?
UriOpenRemote ==
    /\ uri_pc = "open_remote"
    /\ \E io_ok \in BOOLEAN :
          LET ok == ZipArchiveNew(uri_srv, io_ok)
          IN  /\ uri_log' = Append(uri_log, [step |-> "open_remote", ok |-> ok])
              /\ uri_pc' = "done"
              /\ uri_ret' = IF ok THEN UriOk("uri", uri_srv.len)
                                  ELSE UriErr("open_remote")
    /\ UNCHANGED <<uri_srv, uri_tmp>>

\* Err branch: reqwest::blocking::get(uri)?
UriGet ==
    /\ uri_pc = "get"
    /\ \E net_ok \in BOOLEAN : UriStep("get", net_ok, "tempfile")
    /\ UNCHANGED <<uri_srv, uri_tmp>>

\* tempfile::tempfile()?
UriTempfile ==
    /\ uri_pc = "tempfile"
    /\ \E ok \in BOOLEAN :
          /\ UriStep("tempfile", ok, "copy")
          /\ uri_tmp' = IF ok THEN 0 ELSE uri_tmp
    /\ UNCHANGED uri_srv

\* std::io::copy(&mut response, &mut tempfile)?: the whole body, or an error
\* after some part of it.
UriCopy ==
    /\ uri_pc = "copy"
    /\ \/ /\ UriStep("copy", TRUE, "open_file")
          /\ uri_tmp' = uri_srv.len
       \/ \E part \in 0..uri_srv.len :
             /\ UriStep("copy", FALSE, "open_file")
             /\ uri_tmp' = part
    /\ UNCHANGED uri_srv

\* compressed_length = tempfile.len(); ZipArchive::new(zipfile)?
UriOpenFile ==
    /\ uri_pc = "open_file"
    /\ \E io_ok \in BOOLEAN :
          LET ok == ZipArchiveNew(uri_srv, io_ok)
          IN  /\ uri_log' = Append(uri_log, [step |-> "open_file", ok |-> ok])
              /\ uri_pc' = "done"
              /\ uri_ret' = IF ok THEN UriOk("file", uri_tmp)
                                  ELSE UriErr("open_file")
    /\ UNCHANGED <<uri_srv, uri_tmp>>

SpecUriInit == ForUriInit /\ UriOthersIdle
SpecUriNext ==
    \/ UriNew /\ UNCHANGED uriOthers
    \/ UriOpenRemote /\ UNCHANGED uriOthers
    \/ UriGet /\ UNCHANGED uriOthers
    \/ UriTempfile /\ UNCHANGED uriOthers
    \/ UriCopy /\ UNCHANGED uriOthers
    \/ UriOpenFile /\ UNCHANGED uriOthers
SpecUri == SpecUriInit /\ [][SpecUriNext]_vars

EngineFailed == Len(uri_log) > 0 /\ ~uri_log[1].ok
StepFailed(step) ==
    \E i \in 1..Len(uri_log) : uri_log[i].step = step /\ ~uri_log[i].ok

\* C14: when the construction of the seekable HTTP reader engine fails,
\* for_uri does not return that failure: it downloads the whole archive into
\* a temporary file and builds the file-backed engine on it, and it returns
\* an error only if the fallback download (the request, the temporary file,
\* the copy) or the opening of the archive fails.
C14_EngineFailureFallsBack ==
    (uri_pc = "done" /\ EngineFailed) =>
        /\ uri_ret.err # "engine"
        /\ uri_ret.state \in {"Ok", "Err"}
        /\ uri_ret.state = "Err" <=>
              (StepFailed("get") \/ StepFailed("tempfile")
                \/ StepFailed("copy") \/ StepFailed("open_file"))
        /\ uri_ret.state = "Ok" =>
              /\ uri_ret.engine = "file"
              /\ uri_tmp = uri_srv.len
              /\ uri_ret.len = uri_srv.len
              /\ [i \in 1..Len(uri_log) |-> uri_log[i].step]
                    = <<"engine", "get", "tempfile", "copy", "open_file">>

C14_Witness ==
    /\ uri_pc = "done" /\ EngineFailed
    /\ uri_ret = UriOk("file", uri_srv.len)
    /\ ~uri_srv.ranges

(***************************************************************************)
(* SeekableHttpReaderEngine: the read protocol over one HTTP fetcher and a *)
(* contiguous cache.                                                       *)
(***************************************************************************)

\* the longest remote resource, in bytes
MaxRemoteLen == 4
\* cap on each counter of stats
MaxStat == 2

\* FORWARD_SKIP_BUDGET, scaled: how far ahead of the fetcher a read may lie
\* and still be reached by reading and discarding.
ForwardSkipBudget == 1

HttpInit ==
    /\ remote_len \in 1..MaxRemoteLen
    /\ readahead_limit \in {None} \cup 1..MaxBuf
    /\ pattern = "RandomAccess"
    /\ window_start = 0
    /\ bytes_buffered = 0
    /\ fetcher = FALSE
    /\ fetcher_next = 0
    /\ stats = [rewinds |-> 0, fetches |-> 0, cache_shrinks |-> 0]
    /\ reads = [any |-> FALSE, last_end |-> 0, ascending |-> TRUE,
                long_skip |-> FALSE, skipped |-> FALSE]

\* 1. Cache hit: p lies in [window_start, window_start + bytes_buffered).
CacheHit(p) == window_start <= p /\ p < window_start + bytes_buffered

\* A fetcher that can only go on where it stands.
WithinReachNoSkip(p) == p = fetcher_next

\* 2. Forward miss within reach.
WithinReach(p) == p >= fetcher_next /\ p - fetcher_next <= ForwardSkipBudget

\* Steps 2 and 3 for a miss at p: the state [window_start, bytes_buffered,
\* rewinds, fetches] with the fetcher standing at p. The first read finds no
\* fetcher and starts one; within reach the fetcher reads and discards up to
\* p; otherwise it is closed and a new one started at p, which is a rewind.
Reposition(p) ==
    IF ~fetcher
    THEN [ws |-> p, buf |-> 0, rewinds |-> stats.rewinds, fetches |-> stats.fetches + 1]
    ELSE IF WithinReach(p)
         THEN [ws |-> IF p = fetcher_next THEN window_start ELSE p,
               buf |-> IF p = fetcher_next THEN bytes_buffered ELSE 0,
               rewinds |-> stats.rewinds, fetches |-> stats.fetches]
         ELSE [ws |-> p, buf |-> 0, rewinds |-> stats.rewinds + 1,
               fetches |-> stats.fetches + 1]

\* 4. Fill: how many bytes the fetcher may deliver into the cache for a read
\* of n bytes at p. RandomAccess: just the n bytes (as far as the resource
\* goes); SequentialIsh: those, or more, up to readahead_limit bytes ahead
\* of p.
FillAmounts(p, n) ==
    LET left == remote_len - p
        need == Min(n, left)
        most == IF readahead_limit = None THEN left ELSE Min(readahead_limit, left)
    IN  IF pattern = "RandomAccess" THEN {need} ELSE Min(need, most)..most

\* 5. Evict: the bytes dropped from the front of a cache of size b.
Evicted(b) ==
    IF readahead_limit # None /\ b > readahead_limit THEN b - readahead_limit ELSE 0

\* What the history of reads records of a read of k bytes at p.
Recorded(p, k, miss) ==
    [any |-> TRUE,
     last_end |-> p + k,
     ascending |-> reads.ascending /\ (reads.any => p >= reads.last_end),
     long_skip |-> reads.long_skip
                    \/ (miss /\ fetcher /\ p > fetcher_next + ForwardSkipBudget),
     skipped |-> reads.skipped
                    \/ (miss /\ fetcher /\ p > fetcher_next /\ WithinReach(p))]

\* A cursor at p asks for n bytes.
HttpRead(p, n) ==
    IF CacheHit(p)
    THEN /\ reads' = Recorded(p, Min(n, bytes_buffered - (p - window_start)), FALSE)
         /\ UNCHANGED <<remote_len, readahead_limit, pattern, window_start,
                        bytes_buffered, fetcher, fetcher_next, stats>>
    ELSE \E f \in FillAmounts(p, n) :
            LET at == Reposition(p)
                d == Evicted(at.buf + f)
                shrinks == stats.cache_shrinks + (IF d > 0 THEN 1 ELSE 0)
            IN  /\ at.fetches <= MaxStat /\ shrinks <= MaxStat
                /\ fetcher' = TRUE
                /\ fetcher_next' = p + f
                /\ window_start' = at.ws + d
                /\ bytes_buffered' = at.buf + f - d
                /\ stats' = [rewinds |-> at.rewinds, fetches |-> at.fetches,
                             cache_shrinks |-> shrinks]
                /\ reads' = Recorded(p, Min(n, f), TRUE)
                /\ UNCHANGED <<remote_len, readahead_limit, pattern>>

\* set_expected_access_pattern
SetExpectedAccessPattern(a) ==
    /\ pattern' = a
    /\ UNCHANGED <<remote_len, readahead_limit, window_start, bytes_buffered,
                   fetcher, fetcher_next, stats, reads>>

SpecHttpInit == HttpInit /\ HttpOthersIdle
SpecHttpNext ==
    \/ \E p \in 0..MaxRemoteLen, n \in 1..MaxBuf :
          p <= remote_len /\ HttpRead(p, n) /\ UNCHANGED httpOthers
    \/ \E a \in {"RandomAccess", "SequentialIsh"} :
          SetExpectedAccessPattern(a) /\ UNCHANGED httpOthers
SpecHttp == SpecHttpInit /\ [][SpecHttpNext]_vars

\* The invariants of the cache and of the fetcher.
HttpCacheInv ==
    /\ fetcher_next = window_start + bytes_buffered
    /\ readahead_limit # None => bytes_buffered <= readahead_limit
    /\ fetcher_next <= remote_len
    /\ fetcher <=> stats.fetches > 0

\* C15 as stated: for any sequence of reads issued in ascending-position
\* order within the remote length, exactly one HTTP fetch is issued and
\* stats.rewinds stays 0, whatever the gaps between consecutive read
\* positions.
C15_AscendingReadsOneFetch ==
    (reads.any /\ reads.ascending) => (stats.fetches = 1 /\ stats.rewinds = 0)

\* C15 as amended: for any sequence of reads issued in ascending-position
\* order (each at or after the end of the one before) within the remote
\* length, exactly one HTTP fetch is issued and stats.rewinds stays 0 as
\* long as no read lies more than FORWARD_SKIP_BUDGET beyond the fetcher's
\* next byte; a read that does closes the fetcher and starts another, so
\* that there is a second fetch and a rewind.
C15_AscendingReadsWithinBudget ==
    (reads.any /\ reads.ascending) =>
        IF reads.long_skip
        THEN stats.fetches >= 2 /\ stats.rewinds >= 1
        ELSE stats.fetches = 1 /\ stats.rewinds = 0

\* Ascending reads, one of them reached by reading and discarding, under
\* both access patterns, with one fetch.
C15_Witness ==
    /\ reads.any /\ reads.ascending /\ reads.skipped /\ ~reads.long_skip
    /\ reads.last_end = remote_len
    /\ pattern = "SequentialIsh"
    /\ stats.fetches = 1 /\ stats.rewinds = 0

(***************************************************************************)
(* UnzipEngine::for_uri(..).unzip_selective(..): the orchestrator over the *)
(* backing for_uri has chosen, the SeekableHttpReaderEngine (http) or the  *)
(* downloaded temporary file (file). Of the engine, which is not part of   *)
(* these sources, the orchestrator uses the access pattern, the skip hint  *)
(* and stats.cache_shrinks; they are modelled as the specification         *)
(* describes them (4.4): a read may evict from the cache and count a       *)
(* shrink.                                                                 *)
(***************************************************************************)

\* for_uri has made the engine; the unzip goes into an empty output directory.
UeInit ==
    /\ UnzipInit
    /\ fs = [EmptyTree EXCEPT ![<<>>] = DirNode]
    /\ backing \in {"file", "http"}
    /\ ue_pc = "constructed"
    /\ ue_pattern = IF backing = "http" THEN "RandomAccess" ELSE None
    /\ ue_shrinks = 0
    /\ ue_hints = <<>>
    /\ ue_warned = 0

\* Reads of the archive through the backing: on the http backing each may
\* drop a prefix of the cache, which increments stats.cache_shrinks.
EngineReads ==
    ue_shrinks' \in
        IF backing = "http"
        THEN {n \in {ue_shrinks, ue_shrinks + 1} : n <= MaxStat}
        ELSE {ue_shrinks}

\* ZipArchive::new on the reader of the backing: the central directory is
\* read; if that fails, for_uri returns the error.
UeOpen(ok) ==
    /\ ue_pc = "constructed"
    /\ ue_pc' = IF ok THEN "opened" ELSE "failed"
    /\ EngineReads
    /\ UNCHANGED <<backing, ue_pattern, ue_hints, ue_warned>>

\* The pattern of the engine once UnzipEngineImpl::unzip has begun.
\* (UnzipPatternKept: an unzip that leaves the pattern as it is.)
UnzipPatternKept(b, p) == p

UnzipPattern(b, p) == IF b = "http" THEN "SequentialIsh" ELSE p

\* unzip_selective calls unzip of the boxed engine, which on the http backing
\* sets the access pattern before it calls unzip_serial_or_parallel.
UeBegin ==
    /\ ue_pc = "opened"
    /\ ue_pc' = "extracting"
    /\ ue_pattern' = UnzipPattern(backing, ue_pattern)
    /\ UNCHANGED <<backing, ue_shrinks, ue_hints, ue_warned>>

\* file_skip_callback: read_skip_expected of the engine on the http backing,
\* the empty closure on the file backing. (FileSkipCallbackDropped: a callback
\* that does nothing on either.)
FileSkipCallbackDropped(b, hints, size) == hints

FileSkipCallback(b, hints, size) ==
    IF b = "http" THEN Append(hints, size) ELSE hints

\* The task of entry i starts, within unzip_serial_or_parallel: by_index reads
\* the entry's header through the backing, and the skip hint of a rejected
\* entry goes to the callback of the backing.
UeStart(i) ==
    /\ ue_pc = "extracting"
    /\ Start(i)
    /\ EngineReads
    /\ ue_hints' =
          IF StartOutcome(archive[i], filter[DisplayName(archive[i])]) = "skip"
          THEN FileSkipCallback(backing, ue_hints, archive[i].csize)
          ELSE ue_hints
    /\ UNCHANGED <<backing, ue_pc, ue_pattern, ue_warned>>

\* std::io::copy reads the entry's bytes through the backing.
UeCopy(i) ==
    /\ Copy(i)
    /\ EngineReads
    /\ UNCHANGED <<backing, ue_pc, ue_pattern, ue_hints, ue_warned>>

\* The calls of callback_on_rewind after unzip_serial_or_parallel: one if
\* get_stats() shows a cache shrink, on the http backing. (CallbackOnRewindAlways:
\* a warning whatever the statistics say.)
CallbackOnRewindAlways(b, shrinks) == IF b = "http" THEN 1 ELSE 0

CallbackOnRewind(b, shrinks) == IF b = "http" /\ shrinks > 0 THEN 1 ELSE 0

\* unzip_serial_or_parallel has returned the errors: the engine's statistics
\* are read, the warning is given, and unzip_selective returns.
UeReturn ==
    /\ ue_pc = "extracting"
    /\ Return
    /\ ue_pc' = "returned"
    /\ ue_warned' = ue_warned + CallbackOnRewind(backing, ue_shrinks)
    /\ UNCHANGED <<backing, ue_pattern, ue_shrinks, ue_hints>>

SpecUnzipUriInit == UeInit /\ UeOthersIdle
SpecUnzipUriNext ==
    \/ \E ok \in BOOLEAN : UeOpen(ok) /\ UNCHANGED <<fsVars, unzipVars, ueOthers>>
    \/ UeBegin /\ UNCHANGED <<fsVars, unzipVars, ueOthers>>
    \/ \E i \in Tasks : UeStart(i) /\ UNCHANGED ueOthers
    \/ \E i \in Tasks : DcFast(i) /\ TaskDc(i) /\ UNCHANGED <<ueVars, ueOthers>>
    \/ \E i \in Tasks : DcLock(i) /\ TaskDc(i) /\ UNCHANGED <<ueVars, ueOthers>>
    \/ \E i \in Tasks : DcRecheck(i) /\ TaskDc(i) /\ UNCHANGED <<ueVars, ueOthers>>
    \/ \E i \in Tasks : DcCreate(i) /\ TaskDc(i) /\ UNCHANGED <<ueVars, ueOthers>>
    \/ \E i \in Tasks : AfterMkdir(i) /\ UNCHANGED <<ueVars, ueOthers>>
    \/ \E i \in Tasks : UeCopy(i) /\ UNCHANGED ueOthers
    \/ \E i \in Tasks : Finish(i) /\ UNCHANGED <<ueVars, ueOthers>>
    \/ UeReturn /\ UNCHANGED ueOthers
SpecUnzipUri == SpecUnzipUriInit /\ [][SpecUnzipUriNext]_vars

(***************************************************************************)
(* Claims about the unzip of a URI (checked under SpecUnzipUri)            *)
(***************************************************************************)

\* The skip hints given for entry i.
SkipsOf(i) == {k \in 1..Len(skips) : skips[k].i = i}

\* C21: for each entry the filter rejects the skip hint is invoked exactly
\* once, with the entry's compressed size, and it is never invoked for an
\* entry the filter accepts (or was not asked about); on the http backing the
\* hints reach read_skip_expected of the engine, on the file backing they do
\* nothing.
C21_SkipHintOncePerRejectedEntry ==
    /\ \A i \in Tasks :
          Cardinality(SkipsOf(i)) =
              (IF filterCalls[i] = 1 /\ ~Accepted(i) THEN 1 ELSE 0)
    /\ \A k \in 1..Len(skips) : skips[k].size = archive[skips[k].i].csize
    /\ ue_hints = IF backing = "http"
                  THEN [k \in 1..Len(skips) |-> skips[k].size]
                  ELSE <<>>
    /\ backing = "file" => (ue_pattern = None /\ ue_shrinks = 0 /\ ue_warned = 0)

\* An unzip over the http backing has returned: the engine got the hint of a
\* rejected entry with bytes in it, and another entry was extracted.
C21_Witness ==
    /\ backing = "http" /\ Returned
    /\ \E i, j \in Tasks :
          /\ ~Accepted(i) /\ ue_hints = <<archive[i].csize>> /\ archive[i].csize > 1
          /\ Accepted(j) /\ wrote[j] /\ SkipsOf(j) = {}

\* An entry task has started.
TaskStarted == \E i \in Tasks : attempts[i] > 0

\* C22: on the http backing the access pattern of the engine is RandomAccess
\* from construction through the reading of the central directory and is
\* set to SequentialIsh before the first entry task starts: no entry task
\* runs while the pattern is RandomAccess, and the pattern changes only as
\* the unzip begins.
C22_SequentialIshBeforeTasks ==
    /\ [](backing = "http" =>
            /\ ue_pc \in {"constructed", "opened", "failed"} =>
                   (ue_pattern = "RandomAccess" /\ ~TaskStarted)
            /\ TaskStarted => ue_pattern = "SequentialIsh")
    /\ [][ue_pattern' # ue_pattern =>
            (ue_pc = "opened" /\ ue_pc' = "extracting" /\ ~TaskStarted)]_vars

\* On the http backing two entry tasks run at once, with the pattern set.
C22_Witness ==
    /\ backing = "http" /\ ue_pattern = "SequentialIsh"
    /\ Cardinality({i \in Tasks : Running(i)}) = 2

fairOthers == <<readerVars, seekVars, uriVars, httpVars, progVars, ueVars,
                lk_pc, lk_res, lk_lastop>>

\* The task of entry i starts: the reads of by_index take the reader's mutex
\* and give it back.
FairStart(i) ==
    /\ lk_mutex = 0
    /\ Start(i)
    /\ UNCHANGED lk_mutex

\* read() of std::io::copy: `let mut inner = self.inner.lock().unwrap();`
FairCopyLock(i) ==
    /\ pc[i] = "copy"
    /\ lk_mutex = 0
    /\ lk_mutex' = i
    /\ UNCHANGED <<fsVars, unzipVars>>

\* A read() that returns while its guard stays alive.
FairCopyReadKeepsLock(i) ==
    /\ lk_mutex = i
    /\ off[i] < Len(archive[i].data)
    /\ Copy(i)
    /\ UNCHANGED lk_mutex

\* read_at under the guard; the guard is dropped as read() returns, and
\* std::io::copy writes what was read (or fails).
FairCopyRead(i) ==
    /\ lk_mutex = i
    /\ off[i] < Len(archive[i].data)
    /\ Copy(i)
    /\ lk_mutex' = 0

\* The read() at the end of the entry returns 0 bytes under the guard, and
\* the rest of extract_file_inner follows.
FairFinish(i) ==
    /\ lk_mutex = i
    /\ Finish(i)
    /\ lk_mutex' = 0

SpecUnzipFairNext ==
    \/ \E i \in Tasks : FairStart(i) /\ UNCHANGED fairOthers
    \/ \E i \in Tasks : DcFast(i) /\ TaskDc(i) /\ UNCHANGED <<lk_mutex, fairOthers>>
    \/ \E i \in Tasks : DcLock(i) /\ TaskDc(i) /\ UNCHANGED <<lk_mutex, fairOthers>>
    \/ \E i \in Tasks : DcRecheck(i) /\ TaskDc(i) /\ UNCHANGED <<lk_mutex, fairOthers>>
    \/ \E i \in Tasks : DcCreate(i) /\ TaskDc(i) /\ UNCHANGED <<lk_mutex, fairOthers>>
    \/ \E i \in Tasks : AfterMkdir(i) /\ UNCHANGED <<lk_mutex, fairOthers>>
    \/ \E i \in Tasks : FairCopyLock(i) /\ UNCHANGED fairOthers
    \/ \E i \in Tasks : FairCopyRead(i) /\ UNCHANGED fairOthers
    \/ \E i \in Tasks : FairFinish(i) /\ UNCHANGED fairOthers
    \/ Return /\ UNCHANGED <<lk_mutex, fairOthers>>
SpecUnzipFair ==
    /\ SpecUnzipInit
    /\ [][SpecUnzipFairNext]_vars
    /\ WF_vars(SpecUnzipFairNext)

\* C28: under fair scheduling an unzip over N entries terminates with every
\* entry task completed: no worker holds (or waits for) the reader's mutex
\* while it holds the mutex of the DirectoryCreator, or the reverse, so no
\* deadlock is reachable among workers that read and create directories at
\* the same time.
C28_TerminatesWithoutDeadlock ==
    /\ [](\A i \in Tasks :
            /\ dc_mutex = i => (pc[i] = "mkdir" /\ lk_mutex # i)
            /\ lk_mutex = i => (pc[i] = "copy" /\ dcall[i] = NoCall))
    /\ <>[](/\ Returned
            /\ \A i \in Tasks : pc[i] = "done" /\ attempts[i] = 1
            /\ lk_mutex = 0 /\ dc_mutex = 0)

\* One worker reads under the reader's mutex while another holds the mutex
\* of the DirectoryCreator.
C28_Witness ==
    \E i, j \in Tasks : i # j /\ lk_mutex = i /\ dc_mutex = j

====
